---- MODULE Spec2Model ----
(***************************************************************************)
(* Model of the paginated text-to-image engine of image-utils-mcp          *)
(* (src/src/tools/Text2ImageTool.py): split_text_into_pages,               *)
(* create_smart_multi_page_story and Text2ImageTool.execute.               *)
(*                                                                         *)
(* A string is a sequence of one-character strings; a display line is a    *)
(* string, a page is a sequence of display lines.                          *)
(***************************************************************************)
EXTENDS Integers, Sequences, FiniteSets, TLC

(* ------------------------------ bounds --------------------------------- *)
\* longest enumerated content string
MaxLen == 4
\* largest chars_per_line the enumerated canvas widths give
MaxChars == 3
\* largest lines_per_page the enumerated canvas heights give
MaxLines == 2
\* largest page cap passed as max_pages
MaxCap == 2
MaxTicks == 1
MaxPeerPages == 1
MaxFontFiles == 2
MaxArgs == 3

(* ------------------------- program constants --------------------------- *)
title_height == 120
page_num_height == 50
border_margin == 20
line_height == 35
SideMargins == 120
FallbackCharWidth == 24
DefaultCharsPerLine == 25
DefaultWidth == 800
DefaultHeight == 1200

(* ------------------------------ strings -------------------------------- *)
NL == "\n"
\* str.strip() removes whitespace; the space stands for every such character
Whitespace == {" "}
Alphabet == {"a", "b", " ", NL}
StrOf(n) == [1..n -> Alphabet]
\* the scenario of the specification: "ABCDE\n\nFG"
ScenarioContent == <<"A", "B", "C", "D", "E", NL, NL, "F", "G">>
Contents == UNION {StrOf(n) : n \in 0..MaxLen} \cup {ScenarioContent}

Min(a, b) == IF a < b THEN a ELSE b

\* str.splitlines(): "" gives [] and a final newline opens no line
RECURSIVE SplitLines(_)
SplitLines(s) ==
    IF s = <<>> THEN <<>>
    ELSE IF \E k \in 1..Len(s) : s[k] = NL
    THEN LET k == CHOOSE j \in 1..Len(s) :
                      s[j] = NL /\ \A m \in 1..(j - 1) : s[m] # NL
         IN <<SubSeq(s, 1, k - 1)>> \o SplitLines(SubSeq(s, k + 1, Len(s)))
    ELSE <<s>>

\* content.split('\n'): never empty, "" gives [""]
RECURSIVE SplitNL(_)
SplitNL(s) ==
    IF \E k \in 1..Len(s) : s[k] = NL
    THEN LET k == CHOOSE j \in 1..Len(s) :
                      s[j] = NL /\ \A m \in 1..(j - 1) : s[m] # NL
         IN <<SubSeq(s, 1, k - 1)>> \o SplitNL(SubSeq(s, k + 1, Len(s)))
    ELSE <<s>>

\* the test `not line` in place of `not line.strip()`
strip_nothing(line) == line

\* line.strip(): leading and trailing whitespace removed
RECURSIVE strip(_)
strip(line) ==
    IF line = <<>> THEN <<>>
    ELSE IF line[1] \in Whitespace THEN strip(Tail(line))
    ELSE IF line[Len(line)] \in Whitespace
         THEN strip(SubSeq(line, 1, Len(line) - 1))
    ELSE line

\* the test `not line.strip()`
IsBlankLine(line) == strip(line) = <<>>

\* the slice line[i:i + chars_per_line - 1]
SegmentDropsLast(line, i, n) == SubSeq(line, i + 1, Min(i + n, Len(line)) - 1)
\* the slice line[i:i + chars_per_line], i a 0-based offset
Segment(line, i, n) == SubSeq(line, i + 1, Min(i + n, Len(line)))

(* ---------------- split_text_into_pages: the loop bodies ---------------- *)
\* st = [pages, current_page, current_line_count]
\* the blank line that finds the page full is lost
blank_line_drops(st, lpp) ==
    IF st.current_line_count < lpp
    THEN [st EXCEPT !.current_page = Append(@, <<>>),
                    !.current_line_count = @ + 1]
    ELSE [pages |-> Append(st.pages, st.current_page),
          current_page |-> <<>>,
          current_line_count |-> 0]
blank_line(st, lpp) ==
    IF st.current_line_count < lpp
    THEN [st EXCEPT !.current_page = Append(@, <<>>),
                    !.current_line_count = @ + 1]
    ELSE [pages |-> Append(st.pages, st.current_page),
          current_page |-> << <<>> >>,
          current_line_count |-> 1]

\* the full page is replaced without being pushed
add_segment_loses_page(st, segment, lpp) ==
    LET s1 == IF st.current_line_count >= lpp
              THEN [pages |-> st.pages,
                    current_page |-> <<>>,
                    current_line_count |-> 0]
              ELSE st
    IN [s1 EXCEPT !.current_page = Append(@, segment),
                  !.current_line_count = @ + 1]
\* the page is never closed
add_segment_no_close(st, segment, lpp) ==
    [st EXCEPT !.current_page = Append(@, segment),
               !.current_line_count = @ + 1]
add_segment(st, segment, lpp) ==
    LET s1 == IF st.current_line_count >= lpp
              THEN [pages |-> Append(st.pages, st.current_page),
                    current_page |-> <<>>,
                    current_line_count |-> 0]
              ELSE st
    IN [s1 EXCEPT !.current_page = Append(@, segment),
                  !.current_line_count = @ + 1]

\* the page being filled is left out of the result
last_page_forgotten(st) == st.pages
\* the last page is pushed only when it is not empty
last_page(st) ==
    IF st.current_page # <<>> THEN Append(st.pages, st.current_page)
    ELSE st.pages

(* ------------- split_text_into_pages as a function of its input --------- *)
RECURSIVE AddSegments(_, _, _, _, _)
AddSegments(st, line, i, cpl, lpp) ==
    IF cpl < 0 \/ i >= Len(line) THEN st
    ELSE AddSegments(add_segment(st, Segment(line, i, cpl), lpp),
                     line, i + cpl, cpl, lpp)

\* [raised |-> TRUE] when range() rejects a zero step
RECURSIVE SplitLoop(_, _, _, _, _)
SplitLoop(st, lines, k, cpl, lpp) ==
    IF k > Len(lines) THEN [raised |-> FALSE, pages |-> last_page(st)]
    ELSE IF IsBlankLine(lines[k])
         THEN SplitLoop(blank_line(st, lpp), lines, k + 1, cpl, lpp)
    ELSE IF cpl = 0 THEN [raised |-> TRUE, pages |-> <<>>]
    ELSE SplitLoop(AddSegments(st, lines[k], 0, cpl, lpp),
                   lines, k + 1, cpl, lpp)

split_text_into_pages(c, cpl, lpp) ==
    SplitLoop([pages |-> <<>>, current_page |-> <<>>, current_line_count |-> 0],
              SplitNL(c), 1, cpl, lpp)

(* --------------------------- layout capacity --------------------------- *)
\* lines_per_page = available_height // line_height
LinesPerPageOf(h) ==
    (h - title_height - page_num_height - border_margin) \div line_height

\* chars_per_line = (width - 120) // int(char_width), 25 when that raises
CharsPerLineOf(w, cw) ==
    IF cw = 0 THEN DefaultCharsPerLine ELSE (w - SideMargins) \div cw

(* ------------------------------ file names ----------------------------- *)
Digit(d) == CASE d = 0 -> "0" [] d = 1 -> "1" [] d = 2 -> "2" [] d = 3 -> "3"
              [] d = 4 -> "4" [] d = 5 -> "5" [] d = 6 -> "6" [] d = 7 -> "7"
              [] d = 8 -> "8" [] d = 9 -> "9"
RECURSIVE Decimal(_)
Decimal(n) == IF n < 10 THEN <<Digit(n)>>
              ELSE Append(Decimal(n \div 10), Digit(n % 10))
\* the format {n:02d}
Fmt02(n) == IF n < 10 THEN <<"0", Digit(n)>> ELSE Decimal(n)

FileName(t, i) ==
    Decimal(t.year) \o <<"_">> \o Fmt02(t.month) \o <<"_">> \o Fmt02(t.day)
      \o <<"_">> \o Fmt02(t.hour) \o <<"_">> \o Fmt02(i) \o <<".", "p", "n", "g">>

\* the default output_file_path_prefix, os.path.abspath(os.sep)
DefaultPrefix == <<"/">>
EndsWithSeparator(p) == p # <<>> /\ p[Len(p)] \in {"/", "\\"}
OutputPath(p, t, i) ==
    IF EndsWithSeparator(p) THEN p \o FileName(t, i)
    ELSE IF (\E k \in 1..Len(p) : p[k] = "/") \/ ~(\E k \in 1..Len(p) : p[k] = "\\")
         THEN p \o <<"/">> \o FileName(t, i)
    ELSE p \o <<"\\">> \o FileName(t, i)

(* ------------------------------ file system ---------------------------- *)
\* os.path.dirname of a POSIX path
LastSlash(p) ==
    IF \E k \in 1..Len(p) : p[k] = "/"
    THEN CHOOSE k \in 1..Len(p) : p[k] = "/" /\ \A m \in (k + 1)..Len(p) : p[m] # "/"
    ELSE 0
RECURSIVE RStripSlash(_)
RStripSlash(p) ==
    IF p # <<>> /\ p[Len(p)] = "/" THEN RStripSlash(SubSeq(p, 1, Len(p) - 1))
    ELSE p
Dirname(p) ==
    LET head == SubSeq(p, 1, LastSlash(p))
    IN IF head # <<>> /\ (\E k \in 1..Len(head) : head[k] # "/")
       THEN RStripSlash(head) ELSE head

\* os.makedirs(d): d and every missing directory above it
RECURSIVE DirsUpTo(_)
DirsUpTo(d) ==
    IF d = <<>> THEN {}
    ELSE IF Dirname(d) = d THEN {d}
    ELSE {d} \cup DirsUpTo(Dirname(d))

\* image.save(path) needs the directory of path
CanSave(ds, path) == Dirname(path) \in ds
\* a file replaces the file of the same path
DiskWrite(d, path, who, k) ==
    {f \in d : f.path # path} \cup {[path |-> path, owner |-> who, page |-> k]}

(* --------------------------- text measurement -------------------------- *)
margin == 60
TitleY == 50
FirstLineY == 150
TitleFontSize == 36
PageFontSize == 18
FooterRightMargin == 60
FooterBottom == 50

\* what textbbox() measures: a CJK glyph is as wide as the font size, any
\* other glyph half of it; "Zh" is a CJK character of a title, "Di" and "Ye"
\* are the two CJK characters of the footer
Wide == {"Zh", "Di", "Ye"}
RECURSIVE TextWidth(_, _)
TextWidth(text, size) ==
    IF text = <<>> THEN 0
    ELSE (IF Head(text) \in Wide THEN size ELSE size \div 2)
           + TextWidth(Tail(text), size)

\* line 269: "Di {i} / {total_pages} Ye"
PageText(k, n) ==
    <<"Di", " ">> \o Decimal(k) \o <<" ", "/", " ">> \o Decimal(n) \o <<" ", "Ye">>

\* the title width is measured or, when textbbox raises, estimated
TitleWidth(t, fails) ==
    IF "title" \in fails THEN (Len(t) * TitleFontSize) \div 2
    ELSE TextWidth(t, TitleFontSize)
\* no estimate when the measurement raises
PageWidthNoEstimate(text, fails) ==
    IF "footer" \in fails THEN 0 ELSE TextWidth(text, PageFontSize)
\* the footer width is measured or, when textbbox raises, estimated
PageWidth(text, fails) ==
    IF "footer" \in fails THEN Len(text) * PageFontSize
    ELSE TextWidth(text, PageFontSize)

(* ------------------------------- inputs -------------------------------- *)
\* max_pages is <<>> for None and <<m>> for the integer m
NoCap == <<>>
MaxPagesValues == {NoCap} \cup {<<m>> : m \in 0..MaxCap}
\* canvas sizes: widths that give chars_per_line -1, 0, ..., MaxChars with the
\* fallback character width, heights that give lines_per_page 0, ..., MaxLines
Widths == {SideMargins + FallbackCharWidth * k : k \in -1..MaxChars}
Heights == {title_height + page_num_height + border_margin + line_height * k :
              k \in 0..MaxLines}
\* what textlength() measures for the test character; 0 makes the division raise
CharWidths == {0, FallbackCharWidth}
\* datetime.now(): the wall clock, of which the file name keeps the hour
StartClock == [year |-> 2026, month |-> 11, day |-> 1, hour |-> 9, minute |-> 0]
Clock == {StartClock, [StartClock EXCEPT !.hour = 23, !.minute = 30]}
HalfPastNine == [StartClock EXCEPT !.minute = 30]
Later(t) ==
    IF t.minute < 30 THEN [t EXCEPT !.minute = 30]
    ELSE IF t.hour < 23 THEN [t EXCEPT !.hour = @ + 1, !.minute = 0]
    ELSE [t EXCEPT !.day = @ + 1, !.hour = 0, !.minute = 0]
RECURSIVE ClockValues(_)
ClockValues(n) ==
    IF n = 0 THEN Clock \cup {HalfPastNine}
    ELSE ClockValues(n - 1) \cup {Later(t) : t \in ClockValues(n - 1)}

DefaultTitle == <<"T">>
Titles == {DefaultTitle, <<"Zh", "T">>}
ImageTypes == {"BlackBgWhiteText", "Other"}
Root == <<"/">>
Prefixes == {DefaultPrefix, <<"/", "o", "/">>, <<"/", "o">>, <<"o">>}
\* the directories that exist when the invocation starts
DirStates == {{Root}, {Root, <<"/", "o">>}}
\* 28 newlines: 29 blank lines, two pages of the default canvas
LongContent == [k \in 1..28 |-> NL]
EnvContents == {<<>>, <<"a", NL, "b">>, LongContent}
EnvWidths == {SideMargins + FallbackCharWidth * k : k \in -1..1}
EnvHeights == {title_height + page_num_height + border_margin + line_height * k :
                 k \in 0..1}
EnvMaxPages == {NoCap, <<1>>}

(* ------------------------------- state --------------------------------- *)
VARIABLES
    caller,             \* "execute" (Text2ImageTool.execute) or "direct"
    content, max_pages, width, height,     \* arguments of the invocation
    title, image_type, output_file_path_prefix,
    io_faulty,          \* whether makedirs and save can fail
    bbox_fails,         \* the texts ("title", "footer") for which textbbox raises
    pc,                 \* position of the invocation
    char_width, lines_per_page, chars_per_line,
    original_lines, line_no, seg_start,    \* the two loops of the paginator
    pages, current_page, current_line_count,
    uncapped,           \* what split_text_into_pages returned
    now, total_pages, i, image_paths,
    footers,            \* <<index, total>> drawn on each page, in order
    drawn,              \* the draw calls of the page drawn last
    dirs,               \* the directories that exist
    disk,               \* the files that exist: [path, owner, page]
    written,            \* the paths this invocation has saved, in order
    result,             \* what the caller receives
    clock,              \* the wall clock
    peer_n, peer_i, peer_now,   \* another invocation with the same prefix
    font_env,           \* platform, weight, environment and font files
    font_pc, font_paths, font_k, font_result,  \* get_chinese_font
    tools,              \* MCPServer.tools: the names of the registered tools
    tool_name, arguments,       \* the call: a name and the keys of a dict
    srv_pc,             \* position of call_tool
    invocations,        \* how many times tool.execute was called
    exception,          \* what tool.execute raised
    response            \* what call_tool gives: a status and a content

args == <<caller, content, max_pages, width, height, title, image_type,
          output_file_path_prefix, io_faulty, bbox_fails>>
layout == <<char_width, lines_per_page, chars_per_line>>
splitter == <<original_lines, line_no, seg_start, pages, current_page,
              current_line_count>>
renderer == <<now, total_pages, i, image_paths, footers, drawn, dirs, disk,
              written>>
peer == <<peer_n, peer_i, peer_now>>
fontvars == <<font_env, font_pc, font_paths, font_k, font_result>>
server == <<tools, tool_name, arguments, srv_pc, invocations, exception,
            response>>
elsewhere == <<clock, peer, fontvars, server>>

vars == <<args, pc, layout, splitter, uncapped, renderer, result, elsewhere>>

NoResult == [type |-> "none"]
\* f"{image_paths}": the list as Python writes it, every path between quotes
RECURSIVE ReprItems(_)
ReprItems(ps) ==
    IF ps = <<>> THEN <<>>
    ELSE <<"'">> \o Head(ps) \o <<"'">>
           \o (IF Len(ps) > 1 THEN <<",", " ">> ELSE <<>>) \o ReprItems(Tail(ps))
ReprPaths(ps) == <<"[">> \o ReprItems(ps) \o <<"]">>
\* what a successful invocation gives its caller: the list of paths, which
\* execute wraps with their number and their string form (lines 331-335)
Returned(who, ps) ==
    IF who = "execute"
    THEN [type |-> "text", count |-> Len(ps), paths |-> ps,
          result |-> ReprPaths(ps)]
    ELSE [type |-> "return", count |-> Len(ps), paths |-> ps]
\* the exception goes through execute
RaisedThrough(who, e) == [type |-> "raise", text |-> e]
\* an exception leaves create_smart_multi_page_story; execute turns it into
\* an error result (lines 336-340)
Raised(who, e) == [type |-> IF who = "execute" THEN "error" ELSE "raise",
                   text |-> e]
NoDrawing == [title_at |-> <<0, 0>>, title_width |-> 0, lines |-> <<>>,
              footer |-> <<>>, footer_at |-> <<0, 0>>, page_width |-> 0]
NoFontEnv == [platform |-> "linux", bold |-> FALSE, windir |-> FALSE,
              dirs |-> {}, files |-> {}, loadable |-> {}]

\* nothing has been computed yet
Fresh ==
    /\ char_width = 0 /\ lines_per_page = 0 /\ chars_per_line = 0
    /\ original_lines = <<>> /\ line_no = 0 /\ seg_start = 0
    /\ pages = <<>> /\ current_page = <<>> /\ current_line_count = 0
    /\ uncapped = <<>>
    /\ now = [StartClock EXCEPT !.year = 0]
    /\ total_pages = 0 /\ i = 0 /\ image_paths = <<>> /\ footers = <<>>
    /\ drawn = NoDrawing /\ disk = {} /\ written = <<>>
    /\ result = NoResult
    /\ peer_i = 0 /\ peer_now = [StartClock EXCEPT !.year = 0]
NoFontCall ==
    /\ font_env = NoFontEnv /\ font_pc = "idle" /\ font_paths = <<>>
    /\ font_k = 0 /\ font_result = <<"none">>

NoResponse == [status |-> 0, content |-> "none"]
NoServerCall ==
    /\ tools = {} /\ tool_name = "none" /\ arguments = {}
    /\ srv_pc = "idle" /\ invocations = 0 /\ exception = "none"
    /\ response = NoResponse
\* no invocation of create_smart_multi_page_story
NoStoryCall ==
    /\ caller = "direct" /\ content = <<>> /\ max_pages = NoCap
    /\ width = DefaultWidth /\ height = DefaultHeight
    /\ title = DefaultTitle /\ image_type = "BlackBgWhiteText"
    /\ output_file_path_prefix = DefaultPrefix
    /\ io_faulty = FALSE /\ bbox_fails = {}
    /\ pc = "idle"
    /\ dirs = {Root} /\ clock = StartClock /\ peer_n = 0
    /\ Fresh

\* every content and capacity, a file system and a backend that do not fail
Init ==
    /\ caller \in {"execute", "direct"}
    /\ content \in Contents
    /\ IF caller = "execute"
       THEN max_pages = NoCap /\ width = DefaultWidth /\ height = DefaultHeight
       ELSE max_pages \in MaxPagesValues /\ width \in Widths /\ height \in Heights
    /\ title = DefaultTitle /\ image_type = "BlackBgWhiteText"
    /\ output_file_path_prefix = DefaultPrefix
    /\ io_faulty = FALSE /\ bbox_fails = {}
    /\ pc = IF caller = "execute" THEN "execute" ELSE "start"
    /\ dirs = {Root}
    /\ clock = StartClock
    /\ peer_n = 0
    /\ Fresh /\ NoFontCall /\ NoServerCall

(* ------------------------ Text2ImageTool.execute ----------------------- *)
\* an unknown image type is an error
ExecuteCallRejects ==
    /\ pc = "execute"
    /\ IF image_type = "BlackBgWhiteText"
       THEN pc' = "start" /\ UNCHANGED result
       ELSE pc' = "done" /\ result' = Raised(caller, "ValueError")
    /\ UNCHANGED <<args, layout, splitter, uncapped, renderer, elsewhere>>

\* lines 322-329: both branches call create_smart_multi_page_story(title, content)
ExecuteCall ==
    /\ pc = "execute"
    /\ IF image_type = "BlackBgWhiteText"
       THEN pc' = "start"
       ELSE pc' = "start"
    /\ UNCHANGED <<args, layout, splitter, uncapped, renderer, result, elsewhere>>

(* ------------------- create_smart_multi_page_story --------------------- *)
\* lines 167-206: the capacities derived from the canvas and the font
ComputeLayout ==
    /\ pc = "start"
    /\ \E cw \in CharWidths :
         /\ char_width' = cw
         /\ chars_per_line' = CharsPerLineOf(width, cw)
    /\ lines_per_page' = LinesPerPageOf(height)
    /\ pc' = "split"
    /\ UNCHANGED <<args, splitter, uncapped, renderer, result, elsewhere>>

(* ------------------------ split_text_into_pages ------------------------ *)
SplitState == [pages |-> pages, current_page |-> current_page,
               current_line_count |-> current_line_count]

\* lines 115-118
StartSplit ==
    /\ pc = "split"
    /\ original_lines' = SplitNL(content)
    /\ pages' = <<>> /\ current_page' = <<>> /\ current_line_count' = 0
    /\ line_no' = 1 /\ seg_start' = 0
    /\ pc' = "loop"
    /\ UNCHANGED <<args, layout, uncapped, renderer, result, elsewhere>>

\* lines 121-131: a blank source line
BlankLine ==
    /\ pc = "loop" /\ line_no <= Len(original_lines)
    /\ IsBlankLine(original_lines[line_no])
    /\ LET st == blank_line(SplitState, lines_per_page)
       IN /\ pages' = st.pages
          /\ current_page' = st.current_page
          /\ current_line_count' = st.current_line_count
    /\ line_no' = line_no + 1
    /\ UNCHANGED <<args, layout, pc, original_lines, seg_start, uncapped,
                   renderer, result, elsewhere>>

\* lines 135-145: one iteration of the loop over range(0, len(line), chars_per_line)
AddSegment ==
    /\ pc = "loop" /\ line_no <= Len(original_lines)
    /\ ~IsBlankLine(original_lines[line_no])
    /\ chars_per_line > 0
    /\ LET line == original_lines[line_no]
           st == add_segment(SplitState, Segment(line, seg_start, chars_per_line),
                             lines_per_page)
       IN /\ pages' = st.pages
          /\ current_page' = st.current_page
          /\ current_line_count' = st.current_line_count
          /\ IF seg_start + chars_per_line >= Len(line)
             THEN line_no' = line_no + 1 /\ seg_start' = 0
             ELSE line_no' = line_no /\ seg_start' = seg_start + chars_per_line
    /\ UNCHANGED <<args, layout, pc, original_lines, uncapped, renderer, result,
                   elsewhere>>

\* line 135 with a negative step: the range is empty, the line gives nothing
EmptyRange ==
    /\ pc = "loop" /\ line_no <= Len(original_lines)
    /\ ~IsBlankLine(original_lines[line_no])
    /\ chars_per_line < 0
    /\ line_no' = line_no + 1
    /\ UNCHANGED <<args, layout, pc, original_lines, seg_start, pages,
                   current_page, current_line_count, uncapped, renderer, result,
                   elsewhere>>

\* line 135 with a zero step: range() raises ValueError, which leaves
\* create_smart_multi_page_story and is caught by execute (lines 336-340)
RangeError ==
    /\ pc = "loop" /\ line_no <= Len(original_lines)
    /\ ~IsBlankLine(original_lines[line_no])
    /\ chars_per_line = 0
    /\ pc' = "done"
    /\ result' = Raised(caller, "ValueError")
    /\ UNCHANGED <<args, layout, splitter, uncapped, renderer, elsewhere>>

\* lines 147-151
FinishSplit ==
    /\ pc = "loop" /\ line_no > Len(original_lines)
    /\ pages' = last_page(SplitState)
    /\ uncapped' = last_page(SplitState)
    /\ pc' = "cap"
    /\ UNCHANGED <<args, layout, original_lines, line_no, seg_start, current_page,
                   current_line_count, renderer, result, elsewhere>>

(* ------------------- create_smart_multi_page_story --------------------- *)
\* `if max_pages and len(pages) > max_pages`: None and 0 are both falsy
Exceeds(ps, mp) == mp # NoCap /\ mp[1] # 0 /\ Len(ps) > mp[1]
CapPages(ps, mp) == IF Exceeds(ps, mp) THEN SubSeq(ps, 1, mp[1]) ELSE ps

\* what an invocation returns when no directory creation and no save fails,
\* as a function of its inputs and its clock: the pagination, the cap, then
\* one path per retained page
story_result(c, cpl, lpp, mp, p, t, who) ==
    LET r == split_text_into_pages(c, cpl, lpp)
        n == Len(CapPages(r.pages, mp))
    IN IF r.raised
       THEN Raised(who, "ValueError")
       ELSE Returned(who, [k \in 1..n |-> OutputPath(p, t, k)])

\* the cap as an exception instead of a truncation
TruncateRaises ==
    /\ pc = "cap"
    /\ IF Exceeds(pages, max_pages)
       THEN /\ pc' = "done"
            /\ result' = Raised(caller, "ValueError")
            /\ UNCHANGED <<pages, total_pages>>
       ELSE /\ total_pages' = Len(pages)
            /\ pc' = "output"
            /\ UNCHANGED <<pages, result>>
    /\ UNCHANGED <<args, layout, original_lines, line_no, seg_start, current_page,
                   current_line_count, uncapped, now, i, image_paths, footers,
                   drawn, dirs, disk, written, elsewhere>>

\* the total taken before the pages are cut
TruncateTotalBefore ==
    /\ pc = "cap"
    /\ pages' = CapPages(pages, max_pages)
    /\ total_pages' = Len(pages)
    /\ pc' = "output"
    /\ UNCHANGED <<args, layout, original_lines, line_no, seg_start, current_page,
                   current_line_count, uncapped, now, i, image_paths, footers,
                   drawn, dirs, disk, written, result, elsewhere>>

\* lines 211-216
Truncate ==
    /\ pc = "cap"
    /\ pages' = CapPages(pages, max_pages)
    /\ total_pages' = Len(CapPages(pages, max_pages))
    /\ pc' = "output"
    /\ UNCHANGED <<args, layout, original_lines, line_no, seg_start, current_page,
                   current_line_count, uncapped, now, i, image_paths, footers,
                   drawn, dirs, disk, written, result, elsewhere>>

\* whether an operation on the file system goes through
Outcomes == IF io_faulty THEN BOOLEAN ELSE {TRUE}

\* output_dir = os.path.dirname(output_file_path_prefix)
OutputDir(p) == Dirname(p)

\* lines 221-228: the timestamp is taken and the directory is made
PrepareOutput ==
    /\ pc = "output"
    /\ image_paths' = <<>>
    /\ now' = clock
    /\ i' = 1
    /\ LET output_dir == OutputDir(output_file_path_prefix)
       IN IF output_dir # <<>> /\ output_dir \notin dirs
          THEN \E ok \in Outcomes :
                 IF ok
                 THEN /\ dirs' = dirs \cup DirsUpTo(output_dir)
                      /\ pc' = "render"
                      /\ UNCHANGED result
                 ELSE /\ pc' = "done"
                      /\ result' = Raised(caller, "makedirs")
                      /\ UNCHANGED dirs
          ELSE pc' = "render" /\ UNCHANGED <<dirs, result>>
    /\ UNCHANGED <<args, layout, splitter, uncapped, total_pages, footers, drawn,
                   disk, written, elsewhere>>

\* what lines 243-280 draw on the page
Drawing(page_lines, k) ==
    LET page_text == PageText(k, total_pages)
        page_width == PageWidth(page_text, bbox_fails)
    IN [title_at |-> <<margin, TitleY>>,
        title_width |-> TitleWidth(title, bbox_fails),
        lines |-> [j \in 1..Len(page_lines) |->
                     <<margin, FirstLineY + (j - 1) * line_height, page_lines[j]>>],
        footer |-> page_text,
        footer_at |-> <<width - page_width - FooterRightMargin,
                        height - FooterBottom>>,
        page_width |-> page_width]

\* the timestamp read again for every page
RenderPageReadsClock ==
    /\ pc = "render" /\ i <= Len(pages)
    /\ drawn' = Drawing(pages[i], i)
    /\ footers' = Append(footers, <<i, total_pages>>)
    /\ LET output_path == OutputPath(output_file_path_prefix, clock, i)
       IN \E ok \in Outcomes :
            IF ok /\ CanSave(dirs, output_path)
            THEN /\ disk' = DiskWrite(disk, output_path, "self", i)
                 /\ written' = Append(written, output_path)
                 /\ image_paths' = Append(image_paths, output_path)
                 /\ i' = i + 1
                 /\ UNCHANGED <<pc, result>>
            ELSE /\ pc' = "done"
                 /\ result' = Raised(caller, "save")
                 /\ UNCHANGED <<disk, written, image_paths, i>>
    /\ UNCHANGED <<args, layout, splitter, uncapped, now, total_pages, dirs,
                   elsewhere>>

\* a page that cannot be saved is skipped
RenderPageSkipsFailure ==
    /\ pc = "render" /\ i <= Len(pages)
    /\ drawn' = Drawing(pages[i], i)
    /\ footers' = Append(footers, <<i, total_pages>>)
    /\ LET output_path == OutputPath(output_file_path_prefix, now, i)
       IN \E ok \in Outcomes :
            IF ok /\ CanSave(dirs, output_path)
            THEN /\ disk' = DiskWrite(disk, output_path, "self", i)
                 /\ written' = Append(written, output_path)
                 /\ image_paths' = Append(image_paths, output_path)
            ELSE UNCHANGED <<disk, written, image_paths>>
    /\ i' = i + 1
    /\ UNCHANGED <<args, layout, splitter, uncapped, now, total_pages, dirs,
                   pc, result, elsewhere>>

\* lines 229-288: one iteration of `for i, page_lines in enumerate(pages, 1)`;
\* the page is drawn, then saved, and a failing save ends the invocation
RenderPage ==
    /\ pc = "render" /\ i <= Len(pages)
    /\ drawn' = Drawing(pages[i], i)
    /\ footers' = Append(footers, <<i, total_pages>>)
    /\ LET output_path == OutputPath(output_file_path_prefix, now, i)
       IN \E ok \in Outcomes :
            IF ok /\ CanSave(dirs, output_path)
            THEN /\ disk' = DiskWrite(disk, output_path, "self", i)
                 /\ written' = Append(written, output_path)
                 /\ image_paths' = Append(image_paths, output_path)
                 /\ i' = i + 1
                 /\ UNCHANGED <<pc, result>>
            ELSE /\ pc' = "done"
                 /\ result' = Raised(caller, "save")
                 /\ UNCHANGED <<disk, written, image_paths, i>>
    /\ UNCHANGED <<args, layout, splitter, uncapped, now, total_pages, dirs,
                   elsewhere>>

\* lines 290-291, and lines 331-335 of execute
Return ==
    /\ pc = "render" /\ i > Len(pages)
    /\ pc' = "done"
    /\ result' = Returned(caller, image_paths)
    /\ UNCHANGED <<args, layout, splitter, uncapped, renderer, elsewhere>>

Next ==
    \/ ExecuteCall
    \/ ComputeLayout
    \/ StartSplit
    \/ BlankLine
    \/ AddSegment
    \/ EmptyRange
    \/ RangeError
    \/ FinishSplit
    \/ Truncate
    \/ PrepareOutput
    \/ RenderPage
    \/ Return

Spec == Init /\ [][Next]_vars

\* split_text_into_pages alone, called with every content and capacity
InitSplit == Init /\ caller = "direct" /\ max_pages = NoCap

NextSplit ==
    \/ ComputeLayout
    \/ StartSplit
    \/ BlankLine
    \/ AddSegment
    \/ EmptyRange
    \/ RangeError
    \/ FinishSplit

SpecSplit == InitSplit /\ [][NextSplit]_vars

(* -------------------- the world around an invocation ------------------- *)
\* the steps of an invocation before its output stage read neither the clock
\* nor the file system: the steps of the world are taken from that stage on
WorldVisible == pc \in {"output", "render", "done"}

\* time passes
Tick ==
    /\ WorldVisible
    /\ Later(clock) \in ClockValues(MaxTicks)
    /\ clock' = Later(clock)
    /\ UNCHANGED <<args, pc, layout, splitter, uncapped, renderer, result, peer,
                   fontvars, server>>

\* lines 224-228 of another invocation with the same prefix
PeerCapture ==
    /\ WorldVisible
    /\ peer_i = 0 /\ peer_n > 0
    /\ peer_now' = clock
    /\ peer_i' = 1
    /\ dirs' = dirs \cup DirsUpTo(OutputDir(output_file_path_prefix))
    /\ UNCHANGED <<args, pc, layout, splitter, uncapped, now, total_pages, i,
                   image_paths, footers, drawn, disk, written, result, clock,
                   peer_n, fontvars, server>>

\* the minute as a part of the file name
PeerFileWithMinute ==
    OutputPath(output_file_path_prefix, peer_now, peer_i)
      \o <<"m">> \o Decimal(peer_now.minute)
\* lines 231-241 of the other invocation: the same naming
PeerFile == OutputPath(output_file_path_prefix, peer_now, peer_i)

\* lines 286-287 of the other invocation
PeerSave ==
    /\ WorldVisible
    /\ peer_i \in 1..peer_n
    /\ CanSave(dirs, PeerFile)
    /\ disk' = DiskWrite(disk, PeerFile, "peer", peer_i)
    /\ peer_i' = peer_i + 1
    /\ UNCHANGED <<args, pc, layout, splitter, uncapped, now, total_pages, i,
                   image_paths, footers, drawn, dirs, written, result, clock,
                   peer_n, peer_now, fontvars, server>>

\* a few contents, every prefix, a file system that can fail, a clock that
\* moves into the next hour and a second invocation, which may never start
InitEnv ==
    /\ caller \in {"execute", "direct"}
    /\ content \in EnvContents
    /\ IF caller = "execute"
       THEN /\ max_pages = NoCap /\ width = DefaultWidth /\ height = DefaultHeight
            /\ output_file_path_prefix = DefaultPrefix
       ELSE /\ max_pages = NoCap /\ width \in EnvWidths
            /\ height = title_height + page_num_height + border_margin + line_height
            /\ output_file_path_prefix \in Prefixes
    /\ title = DefaultTitle /\ image_type = "BlackBgWhiteText"
    /\ io_faulty \in BOOLEAN /\ bbox_fails = {}
    /\ pc = IF caller = "execute" THEN "execute" ELSE "start"
    /\ dirs \in DirStates
    /\ clock = HalfPastNine
    /\ peer_n = MaxPeerPages
    /\ Fresh /\ NoFontCall /\ NoServerCall

NextEnv ==
    \/ Next
    \/ Tick
    \/ PeerCapture
    \/ PeerSave

SpecEnv == InitEnv /\ [][NextEnv]_vars

\* every title and image type, a backend whose measurements can fail
InitDraw ==
    /\ caller \in {"execute", "direct"}
    /\ IF caller = "execute"
       THEN /\ content \in Contents \cup {LongContent}
            /\ max_pages = NoCap /\ width = DefaultWidth /\ height = DefaultHeight
            /\ image_type \in ImageTypes
       ELSE /\ content \in EnvContents
            /\ max_pages \in EnvMaxPages /\ width \in EnvWidths
            /\ height \in EnvHeights
            /\ image_type = "BlackBgWhiteText"
    /\ output_file_path_prefix = DefaultPrefix
    /\ title \in Titles
    /\ io_faulty = FALSE /\ bbox_fails \in SUBSET {"title", "footer"}
    /\ pc = IF caller = "execute" THEN "execute" ELSE "start"
    /\ dirs = {Root}
    /\ clock \in Clock
    /\ peer_n = 0
    /\ Fresh /\ NoFontCall /\ NoServerCall

SpecDraw == InitDraw /\ [][Next]_vars

(* --------------------------- get_chinese_font -------------------------- *)
\* a font file is <<directory, name>>; the directory "" is the working directory
WindowsFontDir == "WINDIR/Fonts"
MacFontDir == "/System/Library/Fonts"
LinuxFontDirs == <<"/usr/share/fonts/truetype/droid",
                   "/usr/share/fonts/truetype/noto",
                   "/usr/share/fonts/truetype/wqy",
                   "/usr/share/fonts/opentype/noto">>
LinuxFontNames == <<"DroidSansFallbackFull.ttf", "NotoSansCJK-Regular.ttc",
                    "wqy-microhei.ttc">>
common_fonts == <<"simhei.ttf", "simsun.ttc", "msyh.ttc", "arialuni.ttf",
                  "Arial Unicode.ttf">>
Arial == <<"", "arial.ttf">>

InDir(d, names) == [k \in 1..Len(names) |-> <<d, names[k]>>]
RECURSIVE SelectSeqIn(_, _)
SelectSeqIn(s, set) ==
    IF s = <<>> THEN <<>>
    ELSE (IF Head(s) \in set THEN <<Head(s)>> ELSE <<>>)
           \o SelectSeqIn(Tail(s), set)

\* lines 20-71: the candidates of the platform
WindowsFonts(bold) ==
    IF bold
    THEN InDir(WindowsFontDir, <<"msyhbd.ttc", "simhei.ttf", "simsun.ttc",
                                 "msyh.ttc", "Deng.ttf">>)
    ELSE InDir(WindowsFontDir, <<"simhei.ttf", "simsun.ttc", "msyh.ttc",
                                 "msyhbd.ttc", "Deng.ttf">>)
MacFonts(bold) ==
    IF bold
    THEN <<<<MacFontDir, "PingFang.ttc">>, <<MacFontDir, "STHeiti Medium.ttc">>,
           <<MacFontDir, "STHeiti Light.ttc">>,
           <<"/Library/Fonts", "Arial Unicode.ttf">>>>
    ELSE <<<<MacFontDir, "PingFang.ttc">>, <<MacFontDir, "STHeiti Light.ttc">>,
           <<MacFontDir, "STHeiti Medium.ttc">>,
           <<"/Library/Fonts", "Arial Unicode.ttf">>>>
RECURSIVE LinuxFonts(_, _)
LinuxFonts(ds, existing) ==
    IF ds = <<>> THEN <<>>
    ELSE (IF Head(ds) \in existing THEN InDir(Head(ds), LinuxFontNames) ELSE <<>>)
           \o LinuxFonts(Tail(ds), existing)
PlatformFonts(e) ==
    CASE e.platform = "win32" -> WindowsFonts(e.bold)
      [] e.platform = "darwin" -> MacFonts(e.bold)
      [] OTHER -> LinuxFonts(LinuxFontDirs, e.dirs)
\* lines 74-85: the common fonts found in the working directory
CommonFonts(e) == SelectSeqIn(InDir("", common_fonts), e.files)

\* the font files and directories an environment can hold
FontUniverse(platform) ==
    LET own == CASE platform = "win32" ->
                      {WindowsFonts(TRUE)[k] : k \in 1..5}
                 [] platform = "darwin" -> {MacFonts(TRUE)[k] : k \in 1..4}
                 [] OTHER -> {<<LinuxFontDirs[d], LinuxFontNames[n]>> :
                                d \in 1..4, n \in 1..3}
    IN own \cup {<<"", common_fonts[k]>> : k \in 1..5}
\* the subsets of S of at most n elements
RECURSIVE SubsetsUpTo(_, _)
SubsetsUpTo(S, n) ==
    IF n = 0 THEN {{}}
    ELSE LET smaller == SubsetsUpTo(S, n - 1)
         IN smaller \cup {s \cup {x} : s \in smaller, x \in S}
LinuxDirSet == {LinuxFontDirs[d] : d \in 1..4}
\* platform, weight, environment, and a file system of a few font files, of
\* which some load; a file in a directory makes the directory exist
InitFont ==
    /\ \E platform \in {"win32", "darwin", "linux"} :
         \E fs \in SubsetsUpTo(FontUniverse(platform), MaxFontFiles) :
           \E bold \in BOOLEAN,
              windir \in IF platform = "win32" THEN BOOLEAN ELSE {FALSE},
              ds \in IF platform = "linux" THEN SubsetsUpTo(LinuxDirSet, 1)
                     ELSE {{}},
              ls \in SUBSET (fs \cup {Arial}) :
             font_env = [platform |-> platform, bold |-> bold,
                         windir |-> windir,
                         dirs |-> {f[1] : f \in fs} \cup ds, files |-> fs,
                         loadable |-> ls]
    /\ font_pc = "build" /\ font_paths = <<>> /\ font_k = 0
    /\ font_result = <<"none">>
    /\ NoStoryCall /\ NoServerCall

story == <<args, pc, layout, splitter, uncapped, renderer, result, clock, peer>>

\* lines 17-85: the list of candidates; os.environ['WINDIR'] raises KeyError
\* when the variable is not set
BuildFontPaths ==
    /\ font_pc = "build"
    /\ IF font_env.platform = "win32" /\ ~font_env.windir
       THEN /\ font_pc' = "raised"
            /\ font_result' = <<"KeyError">>
            /\ UNCHANGED <<font_paths, font_k>>
       ELSE /\ font_paths' = PlatformFonts(font_env) \o CommonFonts(font_env)
            /\ font_k' = 1
            /\ font_pc' = "try"
            /\ UNCHANGED font_result
    /\ UNCHANGED <<story, server, font_env>>

\* a candidate that does not load ends the search
TryFontStops ==
    /\ font_pc = "try" /\ font_k <= Len(font_paths)
    /\ IF font_paths[font_k] \in font_env.files
       THEN IF font_paths[font_k] \in font_env.loadable
            THEN /\ font_pc' = "done"
                 /\ font_result' = font_paths[font_k]
                 /\ UNCHANGED font_k
            ELSE /\ font_k' = Len(font_paths) + 1
                 /\ UNCHANGED <<font_pc, font_result>>
       ELSE /\ font_k' = font_k + 1
            /\ UNCHANGED <<font_pc, font_result>>
    /\ UNCHANGED <<story, server, font_env, font_paths>>

\* lines 88-93: one iteration of `for font_path in font_paths`
TryFont ==
    /\ font_pc = "try" /\ font_k <= Len(font_paths)
    /\ IF font_paths[font_k] \in font_env.files
       THEN IF font_paths[font_k] \in font_env.loadable
            THEN /\ font_pc' = "done"
                 /\ font_result' = font_paths[font_k]
                 /\ UNCHANGED font_k
            ELSE /\ font_k' = font_k + 1
                 /\ UNCHANGED <<font_pc, font_result>>
       ELSE /\ font_k' = font_k + 1
            /\ UNCHANGED <<font_pc, font_result>>
    /\ UNCHANGED <<story, server, font_env, font_paths>>

\* lines 96-99: the generic face, then the built-in face
TryArial ==
    /\ font_pc = "try" /\ font_k > Len(font_paths)
    /\ font_pc' = "done"
    /\ font_result' = IF Arial \in font_env.loadable THEN Arial
                      ELSE <<"", "load_default">>
    /\ UNCHANGED <<story, server, font_env, font_paths, font_k>>

NextFont ==
    \/ BuildFontPaths
    \/ TryFont
    \/ TryArial

SpecFont == InitFont /\ [][NextFont]_vars

(* ------------------------- MCPServer.call_tool ------------------------- *)
tool_classes == <<"CalculatorTool", "WeatherTool", "ImageProcessingTool",
                  "WebSearchTool", "TimeTool">>
\* BaseTool.__init__: the class name without 'Tool', in lower case
ToolNameOf(cls) ==
    CASE cls = "CalculatorTool" -> "calculator"
      [] cls = "WeatherTool" -> "weather"
      [] cls = "ImageProcessingTool" -> "imageprocessing"
      [] cls = "WebSearchTool" -> "websearch"
      [] cls = "TimeTool" -> "time"
\* _get_required_parameters of every tool
Required(t) ==
    CASE t = "calculator" -> {"operation", "a", "b"}
      [] t = "weather" -> {"city"}
      [] t = "imageprocessing" -> {"action", "image_url"}
      [] t = "websearch" -> {"query"}
      [] t = "time" -> {}
\* the keyword parameters of every execute
Params == {"operation", "a", "b", "city", "country", "action", "image_url",
           "query", "max_results", "format", "extra"}
Accepted(t) ==
    CASE t = "calculator" -> {"operation", "a", "b"}
      [] t = "weather" -> {"city", "country"}
      [] t = "imageprocessing" -> Params
      [] t = "websearch" -> {"query", "max_results"}
      [] t = "time" -> {"format"}
\* tool.execute(**arguments) binds: no unexpected keyword and every
\* parameter without a default present; otherwise Python raises TypeError
Binds(t, a) == a \subseteq Accepted(t) /\ Required(t) \subseteq a
\* the names a client can ask for
RequestedNames ==
    {ToolNameOf(tool_classes[k]) : k \in 1..Len(tool_classes)}
      \cup {"text2image", "Calculator"}

InitServer ==
    /\ NoStoryCall /\ NoFontCall
    /\ tools = {}
    /\ tool_name \in RequestedNames
    /\ arguments \in SubsetsUpTo(Params, MaxArgs)
    /\ srv_pc = "init" /\ invocations = 0 /\ exception = "none"
    /\ response = NoResponse

\* _initialize_tools, lines 382-398
InitializeTools ==
    /\ srv_pc = "init"
    /\ tools' = {ToolNameOf(tool_classes[k]) : k \in 1..Len(tool_classes)}
    /\ srv_pc' = "lookup"
    /\ UNCHANGED <<story, fontvars, tool_name, arguments, invocations, exception,
                   response>>

\* lines 406-409
LookupTool ==
    /\ srv_pc = "lookup"
    /\ IF tool_name \notin tools
       THEN /\ response' = [status |-> 404, content |-> "HTTPException"]
            /\ srv_pc' = "done"
       ELSE /\ srv_pc' = "validate"
            /\ UNCHANGED response
    /\ UNCHANGED <<story, fontvars, tools, tool_name, arguments, invocations,
                   exception>>

\* the tool is executed whatever its arguments
ValidateArgumentsSkipped ==
    /\ srv_pc = "validate"
    /\ srv_pc' = "execute"
    /\ UNCHANGED <<story, fontvars, tools, tool_name, arguments, invocations,
                   exception, response>>

\* lines 411-420 and 432-433: the HTTPException of a missing parameter is
\* raised again as it is
ValidateArguments ==
    /\ srv_pc = "validate"
    /\ LET missing_params == Required(tool_name) \ arguments
       IN IF missing_params # {}
          THEN /\ response' = [status |-> 400, content |-> "HTTPException"]
               /\ srv_pc' = "done"
          ELSE /\ srv_pc' = "execute"
               /\ UNCHANGED response
    /\ UNCHANGED <<story, fontvars, tools, tool_name, arguments, invocations,
                   exception>>

\* lines 422-430: every execute of the registry catches its own exceptions and
\* returns a dict, so the call raises only when the arguments do not bind
ExecuteTool ==
    /\ srv_pc = "execute"
    /\ invocations' = invocations + 1
    /\ IF Binds(tool_name, arguments)
       THEN /\ response' = [status |-> 200, content |-> "dict"]
            /\ srv_pc' = "done"
            /\ UNCHANGED exception
       ELSE /\ exception' = "TypeError"
            /\ srv_pc' = "except"
            /\ UNCHANGED response
    /\ UNCHANGED <<story, fontvars, tools, tool_name, arguments>>

\* lines 434-439
ReportFailure ==
    /\ srv_pc = "except"
    /\ response' = [status |-> 500, content |-> "HTTPException"]
    /\ srv_pc' = "done"
    /\ UNCHANGED <<story, fontvars, tools, tool_name, arguments, invocations,
                   exception>>

NextServer ==
    \/ InitializeTools
    \/ LookupTool
    \/ ValidateArguments
    \/ ExecuteTool
    \/ ReportFailure

SpecServer == InitServer /\ [][NextServer]_vars

(* ======================================================================= *)
(* Reference notions the properties are stated with                        *)
(* ======================================================================= *)
RECURSIVE Concat(_)
Concat(ss) == IF ss = <<>> THEN <<>> ELSE Head(ss) \o Concat(Tail(ss))

\* all display lines of a sequence of pages, in page order and line order
Flatten(ps) == Concat(ps)

NotEmpty(l) == l # <<>>
IsEmpty(l) == l = <<>>
NotNewline(c) == c # NL
WhitespaceOnly(l) == \A k \in 1..Len(l) : l[k] \in {" ", "\t"}
HasText(l) == ~WhitespaceOnly(l)

\* the source lines: content cut at every newline, empty lines kept
RECURSIVE SourceLines(_)
SourceLines(c) ==
    IF c = <<>> THEN << <<>> >>
    ELSE IF Head(c) = NL THEN << <<>> >> \o SourceLines(Tail(c))
    ELSE LET rest == SourceLines(Tail(c))
         IN <<(<<Head(c)>> \o Head(rest))>> \o Tail(rest)

Ceil(a, b) == (a + b - 1) \div b
\* the chunks of a line: ceil(L/N) pieces of N characters, the last one shorter
Chunks(l, n) ==
    [j \in 1..Ceil(Len(l), n) |->
        SubSeq(l, (j - 1) * n + 1, IF j * n < Len(l) THEN j * n ELSE Len(l))]

Succeeded == pc = "done" /\ result.type \in {"return", "text"}
Failed == pc = "done" /\ result.type \in {"raise", "error"}
\* split_text_into_pages has returned
Paginated == pc \in {"cap", "output", "render"} \/ Succeeded
PositiveCapacity == chars_per_line >= 1 /\ lines_per_page >= 1

(* ----------------------------------------------------------------------- *)
(* C1: with max_pages unset and positive capacities, the non-blank display *)
(* lines of all pages, concatenated in page and line order, are exactly    *)
(* the characters of the non-blank source lines in their original order.   *)
(* ----------------------------------------------------------------------- *)
C1_Reconstruction ==
    (Paginated /\ max_pages = NoCap /\ PositiveCapacity)
      => Concat(SelectSeq(Flatten(pages), NotEmpty))
           = Concat(SelectSeq(SourceLines(content), HasText))

\* a text line longer than a display line, next to a whitespace-only line,
\* spread over more than one page
C1_Witness ==
    /\ Succeeded /\ max_pages = NoCap /\ PositiveCapacity
    /\ Len(pages) >= 2
    /\ \E k \in 1..Len(original_lines) :
         HasText(original_lines[k]) /\ Len(original_lines[k]) > chars_per_line
    /\ \E k \in 1..Len(original_lines) :
         WhitespaceOnly(original_lines[k]) /\ original_lines[k] # <<>>

(* ----------------------------------------------------------------------- *)
(* C2 as stated: with max_pages unset every character of content other     *)
(* than the newline separators, whitespace-only lines included, appears in *)
(* the display lines in order.                                             *)
(* ----------------------------------------------------------------------- *)
C2_Original ==
    (Paginated /\ max_pages = NoCap /\ PositiveCapacity)
      => Concat(Flatten(pages)) = SelectSeq(content, NotNewline)

\* the source lines as the pages keep them: a whitespace-only line is empty
KeptLines(c) ==
    [k \in 1..Len(SourceLines(c)) |->
        IF WhitespaceOnly(SourceLines(c)[k]) THEN <<>> ELSE SourceLines(c)[k]]

(* ----------------------------------------------------------------------- *)
(* C2 amended: with max_pages unset every character of content other than  *)
(* the newline separators and the characters of whitespace-only source     *)
(* lines appears in the display lines in order; every whitespace-only      *)
(* source line is kept as one empty display line.                          *)
(* ----------------------------------------------------------------------- *)
C2_Amended ==
    (Paginated /\ max_pages = NoCap /\ PositiveCapacity)
      => /\ Concat(Flatten(pages)) = Concat(KeptLines(content))
         /\ Len(SelectSeq(Flatten(pages), IsEmpty))
              = Len(SelectSeq(KeptLines(content), IsEmpty))

\* a whitespace-only line that is not empty has been paginated
C2_Witness ==
    /\ Succeeded /\ max_pages = NoCap /\ PositiveCapacity
    /\ \E k \in 1..Len(original_lines) :
         WhitespaceOnly(original_lines[k]) /\ original_lines[k] # <<>>
    /\ \E k \in 1..Len(original_lines) : HasText(original_lines[k])

\* the display lines the claim gives a source line when the lines for which
\* Chunked holds are cut into chunks and every other line gives one blank line
DisplayLinesOf(ls, n, Chunked(_)) ==
    Concat([k \in 1..Len(ls) |->
              IF Chunked(ls[k]) THEN Chunks(ls[k], n) ELSE << <<>> >>])

(* ----------------------------------------------------------------------- *)
(* C3 as stated: every non-empty source line of length L gives exactly     *)
(* ceil(L/N) display lines, each of N characters except the last (1..N),   *)
(* none empty and none mixing two source lines.                            *)
(* ----------------------------------------------------------------------- *)
C3_Original ==
    (Paginated /\ PositiveCapacity)
      => Flatten(uncapped)
           = DisplayLinesOf(SourceLines(content), chars_per_line, NotEmpty)

(* ----------------------------------------------------------------------- *)
(* C3 amended: every source line of length L that holds a non-whitespace   *)
(* character gives exactly ceil(L/N) display lines, each of N characters   *)
(* except the last (1..N), none empty and none mixing two source lines.    *)
(* ----------------------------------------------------------------------- *)
C3_Amended ==
    (Paginated /\ PositiveCapacity)
      => /\ Flatten(uncapped)
              = DisplayLinesOf(SourceLines(content), chars_per_line, HasText)
         /\ \A k \in 1..Len(SourceLines(content)) :
              LET l == SourceLines(content)[k]
                  cs == Chunks(l, chars_per_line)
              IN HasText(l) =>
                   /\ Len(cs) = Ceil(Len(l), chars_per_line)
                   /\ \A j \in 1..Len(cs) :
                        /\ Len(cs[j]) >= 1 /\ Len(cs[j]) <= chars_per_line
                        /\ j < Len(cs) => Len(cs[j]) = chars_per_line

\* a text line that needs a shorter last chunk, after another source line
C3_Witness ==
    /\ Succeeded /\ PositiveCapacity
    /\ Len(original_lines) >= 2
    /\ \E k \in 1..Len(original_lines) :
         /\ HasText(original_lines[k])
         /\ Len(original_lines[k]) > chars_per_line
         /\ Len(original_lines[k]) % chars_per_line # 0

\* the display lines produced so far, and the source lines they come from
EmittedSoFar == IF pc = "loop" THEN Flatten(pages) \o current_page
                ELSE Flatten(uncapped)
LinesDone == IF pc = "loop" THEN line_no - 1 ELSE Len(SourceLines(content))

BlankCount ==
    (pc = "loop" \/ Paginated)
      => Len(SelectSeq(EmittedSoFar, IsEmpty))
           = Len(SelectSeq(SubSeq(SourceLines(content), 1, LinesDone),
                           WhitespaceOnly))

BlankRule ==
    (/\ pc = "loop" /\ line_no <= Len(original_lines)
     /\ WhitespaceOnly(original_lines[line_no])
     /\ line_no' = line_no + 1)
      => IF current_line_count < lines_per_page
         THEN /\ pages' = pages
              /\ current_page' = Append(current_page, <<>>)
              /\ current_line_count' = current_line_count + 1
         ELSE /\ pages' = Append(pages, current_page)
              /\ current_page' = << <<>> >>
              /\ current_line_count' = 1

(* ----------------------------------------------------------------------- *)
(* C4: K consecutive empty source lines give exactly K blank display       *)
(* lines: at every point of the loop the number of blank display lines     *)
(* produced equals the number of blank source lines consumed, and a blank  *)
(* line is appended when the page has room and otherwise closes the page   *)
(* and opens the next one as its only line (count = 1).                    *)
(* ----------------------------------------------------------------------- *)
C4_BlankLines == []BlankCount /\ [][BlankRule]_vars

\* three or more empty lines and nothing else, cut by a page boundary
C4_Witness ==
    /\ Succeeded /\ lines_per_page >= 1
    /\ Len(content) >= 2 /\ \A k \in 1..Len(content) : content[k] = NL
    /\ Len(uncapped) >= 2
    /\ Len(SelectSeq(Flatten(uncapped), IsEmpty)) = Len(content) + 1

ScenarioPages == << << <<"A", "B", "C">>, <<"D", "E">> >>,
                    << <<>>, <<"F", "G">> >> >>

(* ----------------------------------------------------------------------- *)
(* C5: with positive capacities the page buffer holds exactly              *)
(* current_line_count lines and never more than lines_per_page at every    *)
(* step of the loop; in the result every page but the last holds exactly   *)
(* lines_per_page lines and the last between 1 and lines_per_page;         *)
(* "ABCDE\n\nFG" with 3 chars per line and 2 lines per page gives          *)
(* ["ABC","DE"] and ["","FG"].                                             *)
(* ----------------------------------------------------------------------- *)
C5_PageCapacity ==
    PositiveCapacity =>
      /\ pc = "loop" =>
           /\ Len(current_page) = current_line_count
           /\ current_line_count <= lines_per_page
           /\ \A k \in 1..Len(pages) : Len(pages[k]) = lines_per_page
      /\ Paginated =>
           /\ Len(uncapped) >= 1
           /\ \A k \in 1..(Len(uncapped) - 1) : Len(uncapped[k]) = lines_per_page
           /\ Len(uncapped[Len(uncapped)]) >= 1
           /\ Len(uncapped[Len(uncapped)]) <= lines_per_page
      /\ (Paginated /\ content = ScenarioContent /\ chars_per_line = 3
            /\ lines_per_page = 2) => uncapped = ScenarioPages

\* the scenario has been paginated
C5_Witness ==
    /\ pc = "cap" /\ content = ScenarioContent
    /\ chars_per_line = 3 /\ lines_per_page = 2
    /\ pages = ScenarioPages

(* ----------------------------------------------------------------------- *)
(* C6 as stated: the empty string gives exactly one page, that page has    *)
(* zero display lines, and its total is 1.                                 *)
(* ----------------------------------------------------------------------- *)
C6_Original ==
    (content = <<>> /\ (pc = "render" \/ Succeeded))
      => Len(pages) = 1 /\ pages[1] = <<>> /\ total_pages = 1

(* ----------------------------------------------------------------------- *)
(* C6 amended: with lines_per_page >= 1 the empty string gives exactly     *)
(* one page, that page holds exactly one display line, which is blank,     *)
(* and its total is 1.                                                     *)
(* ----------------------------------------------------------------------- *)
C6_Amended ==
    (content = <<>> /\ lines_per_page >= 1 /\ (pc = "render" \/ Succeeded))
      => pages = << << <<>> >> >> /\ total_pages = 1

\* the empty string has been rendered
C6_Witness ==
    /\ content = <<>> /\ lines_per_page >= 1 /\ Succeeded
    /\ footers = << <<1, 1>> >>

\* the page count of split_text_into_pages exceeds the cap
OverCap == max_pages # NoCap /\ Len(uncapped) > max_pages[1]

(* ----------------------------------------------------------------------- *)
(* C7: with max_pages = M and P > M pages without the cap, exactly M pages *)
(* are rendered, they are the first M uncapped pages unchanged, and every  *)
(* footer total is M.                                                      *)
(* ----------------------------------------------------------------------- *)
C7_Truncation ==
    (Succeeded /\ OverCap)
      => /\ Len(image_paths) = max_pages[1]
         /\ pages = SubSeq(uncapped, 1, max_pages[1])
         /\ \A k \in 1..Len(footers) : footers[k][2] = max_pages[1]

(* ----------------------------------------------------------------------- *)
(* C8 as stated: when content was dropped by the cap, the value returned   *)
(* on success differs from the value of every run that dropped nothing.    *)
(* ----------------------------------------------------------------------- *)
C8_Original ==
    (Succeeded /\ Len(uncapped) > Len(pages))
      => ~ \E c \in Contents :
             LET r == split_text_into_pages(c, chars_per_line, lines_per_page)
             IN /\ ~r.raised
                /\ CapPages(r.pages, max_pages) = r.pages
                /\ story_result(c, chars_per_line, lines_per_page, max_pages,
                                output_file_path_prefix, now, caller) = result

\* the paths of n files of the invocation
PathIndex(path) ==
    LET us == {k \in 1..Len(path) : path[k] = "_"}
        ds == {k \in 1..Len(path) : path[k] = "."}
        u == CHOOSE k \in us : \A m \in us : m <= k
        d == CHOOSE k \in ds : \A m \in ds : m <= k
    IN SubSeq(path, u + 1, d - 1)
DigitValue(ch) == CASE ch = "0" -> 0 [] ch = "1" -> 1 [] ch = "2" -> 2
                    [] ch = "3" -> 3 [] ch = "4" -> 4 [] ch = "5" -> 5
                    [] ch = "6" -> 6 [] ch = "7" -> 7 [] ch = "8" -> 8
                    [] ch = "9" -> 9
RECURSIVE NumberOf(_)
NumberOf(ds) == IF ds = <<>> THEN 0
                ELSE 10 * NumberOf(SubSeq(ds, 1, Len(ds) - 1))
                       + DigitValue(ds[Len(ds)])

(* ----------------------------------------------------------------------- *)
(* C8 amended: when the input exceeds max_pages the truncation is not an   *)
(* error, the call succeeds; the value returned is only the number and the *)
(* paths of the rendered pages, numbered 1..n, and holds nothing about the *)
(* dropped content.                                                        *)
(* ----------------------------------------------------------------------- *)
C8_Amended ==
    (pc = "done" /\ OverCap)
      => /\ result.type \in {"return", "text"}
         /\ DOMAIN result = {"type", "count", "paths"}
         /\ result.count = Len(pages)
         /\ Len(result.paths) = Len(pages)
         /\ \A k \in 1..Len(pages) :
              NumberOf(PathIndex(result.paths[k])) = k

\* a run that dropped content has returned
C8_Witness ==
    /\ Succeeded /\ OverCap
    /\ Len(uncapped) > Len(pages) /\ Len(pages) = max_pages[1]

(* ----------------------------------------------------------------------- *)
(* C9: within one invocation the page indices of the footers and of the    *)
(* file names are 1, 2, ..., n in increasing order without gap or repeat,  *)
(* and the total on every page is the same n, the number of pages          *)
(* rendered after any truncation.                                          *)
(* ----------------------------------------------------------------------- *)
C9_PageNumbers ==
    (pc = "render" \/ Succeeded)
      => /\ total_pages = Len(pages)
         /\ Len(footers) = Len(image_paths)
         /\ Len(footers) <= total_pages
         /\ \A k \in 1..Len(footers) :
              /\ footers[k] = <<k, total_pages>>
              /\ NumberOf(PathIndex(image_paths[k])) = k
         /\ Succeeded => Len(footers) = total_pages

\* a truncated run of two pages has returned
C9_Witness ==
    /\ Succeeded /\ Len(footers) = 2
    /\ Len(uncapped) > Len(pages)

(* ----------------------------------------------------------------------- *)
(* C10: a non-positive chars_per_line or lines_per_page is rejected with   *)
(* an error before any page is drawn or written: no page of such a call   *)
(* is rendered and the call never returns successfully.                    *)
(* ----------------------------------------------------------------------- *)
C10_Rejected ==
    (pc \notin {"execute", "start"} /\ (chars_per_line <= 0 \/ lines_per_page <= 0))
      => /\ image_paths = <<>>
         /\ footers = <<>>
         /\ pc = "done" => Failed

Max(a, b) == IF a > b THEN a ELSE b
LayoutDone == pc \notin {"idle", "execute", "start"}

(* ----------------------------------------------------------------------- *)
(* C11: for every canvas width, canvas height and measured character       *)
(* width, chars_per_line = max(1, floor((width - 2*60) / char_width)) and  *)
(* lines_per_page = max(1, floor((height - 120 - 50 - 20) / line_height)); *)
(* both are at least 1.                                                    *)
(* ----------------------------------------------------------------------- *)
C11_Capacities ==
    (LayoutDone /\ char_width > 0)
      => /\ chars_per_line = Max(1, (width - 2 * 60) \div char_width)
         /\ lines_per_page = Max(1, (height - 120 - 50 - 20) \div 35)
         /\ chars_per_line >= 1 /\ lines_per_page >= 1

\* the decimal digits, and numbers written with two and with four of them
Digits == <<"0", "1", "2", "3", "4", "5", "6", "7", "8", "9">>
TwoDigits(n) == <<Digits[(n \div 10) + 1], Digits[(n % 10) + 1]>>
FourDigits(n) == TwoDigits(n \div 100) \o TwoDigits(n % 100)
\* <year>_<month>_<day>_<hour>_ of a time
Stamp(t) ==
    FourDigits(t.year) \o <<"_">> \o TwoDigits(t.month) \o <<"_">>
      \o TwoDigits(t.day) \o <<"_">> \o TwoDigits(t.hour) \o <<"_">>
EndsWith(path, tail) ==
    /\ Len(path) >= Len(tail)
    /\ SubSeq(path, Len(path) - Len(tail) + 1, Len(path)) = tail
\* a path without its page index and extension
PathStem(path) == SubSeq(path, 1, Len(path) - 6)

(* ----------------------------------------------------------------------- *)
(* C12: the output paths of one invocation are pairwise distinct and       *)
(* differ only in the zero-padded page index: every file name is           *)
(* <year>_<month>_<day>_<hour>_<index>.png with the timestamp captured     *)
(* once, the same on every page even when the clock hour changes while     *)
(* pages are being rendered.                                               *)
(* ----------------------------------------------------------------------- *)
C12_FileNames ==
    \A j \in 1..Len(image_paths) :
      /\ EndsWith(image_paths[j],
                  Stamp(now) \o TwoDigits(j) \o <<".", "p", "n", "g">>)
      /\ \A k \in 1..Len(image_paths) :
           /\ PathStem(image_paths[j]) = PathStem(image_paths[k])
           /\ j # k => image_paths[j] # image_paths[k]

\* two pages were saved and the hour is no longer the hour of the file names
C12_Witness ==
    /\ Succeeded /\ Len(image_paths) = 2
    /\ clock.hour # now.hour

\* the directory named by a prefix: the prefix without a trailing separator
TargetDir(p) ==
    IF Len(p) > 1 /\ p[Len(p)] = "/" THEN SubSeq(p, 1, Len(p) - 1) ELSE p
\* a file directly in a directory
IsUnder(path, d) ==
    \E name \in {SubSeq(path, k, Len(path)) : k \in 2..Len(path)} :
      /\ \A k \in 1..Len(name) : name[k] # "/"
      /\ path \in {d \o name, d \o <<"/">> \o name}
\* the invocation has reached the stage of its output
OutputStarted ==
    \/ pc = "render"
    \/ pc = "done" /\ (result.type \in {"raise", "error"} => result.text # "ValueError")

(* ----------------------------------------------------------------------- *)
(* C13: for every prefix, with or without a trailing separator, the        *)
(* directory into which the page files are written is created before the   *)
(* first write when it does not exist (nothing changes when it exists),    *)
(* every returned path lies under it, and it exists after the call. Stated *)
(* for a file system whose operations do not fail.                         *)
(* ----------------------------------------------------------------------- *)
C13_Directory ==
    (~io_faulty /\ OutputStarted)
      => /\ TargetDir(output_file_path_prefix) \in dirs
         /\ \A k \in 1..Len(image_paths) :
              IsUnder(image_paths[k], TargetDir(output_file_path_prefix))
         /\ pc = "done" => Succeeded

\* the same four fields of the timestamp
SameHour(t, u) ==
    t.year = u.year /\ t.month = u.month /\ t.day = u.day /\ t.hour = u.hour
OwnerOf(d, path) == {f.owner : f \in {g \in d : g.path = path}}
\* the other invocation saves its page peer_i
PeerSaves == peer_i' = peer_i + 1 /\ peer_i >= 1
\* this invocation saves its page i
SelfSaves == Len(written') = Len(written) + 1
Collision ==
    /\ (PeerSaves /\ SameHour(now, peer_now) /\ peer_i <= Len(written))
          => OwnerOf(disk', written[peer_i]) = {"peer"}
    /\ (SelfSaves /\ SameHour(now, peer_now) /\ i < peer_i)
          => /\ OwnerOf(disk', written'[i]) = {"self"}
             /\ OwnerOf(disk, written'[i]) = {"peer"}

IOFailed == Failed /\ result.text \in {"makedirs", "save"}
Ended == pc = "done" /\ UNCHANGED <<pc, result, image_paths, footers, drawn,
                                     written, now, i, total_pages>>
\* the entries of disk written by this invocation stay as they are
OwnFilesKept == {f \in disk' : f.owner = "self"} \subseteq disk

(* ----------------------------------------------------------------------- *)
(* C15: when creating the directory or writing a page fails the whole call *)
(* fails: a page that was drawn and not written ends the invocation, no    *)
(* later page is drawn or written, execute returns one result of type      *)
(* "error" with a text and without a list of paths.                        *)
(* ----------------------------------------------------------------------- *)
C15_Fatal ==
    /\ [](Len(footers) # Len(written)
            => IOFailed /\ Len(footers) = Len(written) + 1)
    /\ [](IOFailed
            => /\ DOMAIN result = {"type", "text"}
               /\ caller = "execute" => result.type = "error"
               /\ result.text = "makedirs" => footers = <<>> /\ written = <<>>)
    /\ [][pc = "done" => Ended /\ OwnFilesKept]_vars

\* execute has returned an error for the second page, which was not written
C15_Witness ==
    /\ caller = "execute" /\ IOFailed
    /\ result.text = "save" /\ Len(written) = 1 /\ Len(footers) = 2

\* the paths the caller has received
ReturnedPaths == IF "paths" \in DOMAIN result THEN result.paths ELSE <<>>

(* ----------------------------------------------------------------------- *)
(* C16: the path list returned is consistent with what the invocation put  *)
(* on disk: pages are written in page-index order, and when the invocation *)
(* has ended, with success or after a write failing at page k, the files   *)
(* it has written are exactly the paths returned to the caller.            *)
(* ----------------------------------------------------------------------- *)
C16_Consistent ==
    /\ \A k \in 1..Len(written) : NumberOf(PathIndex(written[k])) = k
    /\ pc = "done" => written = ReturnedPaths

\* the position of the first element of a sequence that lies in a set, or 0
FirstIn(seq, set) ==
    IF \E k \in 1..Len(seq) : seq[k] \in set
    THEN CHOOSE k \in 1..Len(seq) :
           seq[k] \in set /\ \A j \in 1..(k - 1) : seq[j] \notin set
    ELSE 0
\* the font files that exist and load
Usable == font_env.files \cap font_env.loadable

(* ----------------------------------------------------------------------- *)
(* C17: get_chinese_font is total: on every platform, for every weight,    *)
(* environment and state of the file system, missing environment variables *)
(* included, it returns a font handle and never raises.                    *)
(* ----------------------------------------------------------------------- *)
C17_Total == font_pc # "raised"

(* ----------------------------------------------------------------------- *)
(* C18: when get_chinese_font returns, the font is the one loaded from the *)
(* first candidate, in the order of the platform's list, that exists and   *)
(* loads; candidates that exist and do not load are skipped; only when no  *)
(* candidate is usable is it "arial.ttf", and only when that does not load *)
(* the built-in default face.                                              *)
(* ----------------------------------------------------------------------- *)
C18_FirstUsable ==
    font_pc = "done"
      => LET first == FirstIn(font_paths, Usable)
         IN /\ first # 0 => font_result = font_paths[first]
            /\ (first = 0 /\ Arial \in font_env.loadable) => font_result = Arial
            /\ (first = 0 /\ Arial \notin font_env.loadable)
                 => font_result = <<"", "load_default">>

\* the second candidate was returned after the first, which exists, did not load
C18_Witness ==
    /\ font_pc = "done" /\ font_k \in 2..Len(font_paths)
    /\ font_result = font_paths[font_k]
    /\ \E j \in 1..(font_k - 1) :
         font_paths[j] \in font_env.files \ font_env.loadable

\* the number of characters of the footer of page k of n
FooterLength(k, n) ==
    7 + (IF k < 10 THEN 1 ELSE 2) + (IF n < 10 THEN 1 ELSE 2)

(* ----------------------------------------------------------------------- *)
(* C19: a bounding-box query that raises for the title or for the footer   *)
(* does not abort rendering: the width is the estimate computed from the   *)
(* number of characters (18 per character), the title, every body line and *)
(* the footer of the page are drawn, the page is saved and its path is     *)
(* returned. Stated for a file system whose operations do not fail.        *)
(* ----------------------------------------------------------------------- *)
C19_Fallback ==
    (~io_faulty /\ pc \in {"render", "done"} /\ Len(footers) >= 1)
      => LET k == Len(footers)
         IN /\ drawn.title_at = <<60, 50>>
            /\ "title" \in bbox_fails => drawn.title_width = Len(title) * 18
            /\ Len(drawn.lines) = Len(pages[k])
            /\ \A j \in 1..Len(pages[k]) : drawn.lines[j][3] = pages[k][j]
            /\ Len(drawn.footer) = FooterLength(k, total_pages)
            /\ "footer" \in bbox_fails
                 => /\ drawn.page_width = FooterLength(k, total_pages) * 18
                    /\ drawn.footer_at =
                         <<width - drawn.page_width - 60, height - 50>>
            /\ Len(image_paths) = k
            /\ pc = "done" => Succeeded /\ result.paths = image_paths

\* two pages were saved although both measurements raised
C19_Witness ==
    /\ bbox_fails = {"title", "footer"}
    /\ Succeeded /\ Len(result.paths) = 2 /\ Len(footers) = 2

(* ----------------------------------------------------------------------- *)
(* C20: execute never rejects an image_type: with any value other than     *)
(* "BlackBgWhiteText" it runs the same rendering path and returns what the *)
(* call with "BlackBgWhiteText" returns for the same title, content and    *)
(* timestamp: a result of type "text", the same page count, the same       *)
(* paths.                                                                  *)
(* ----------------------------------------------------------------------- *)
C20_AnyImageType ==
    (caller = "execute" /\ pc = "done")
      => /\ result.type = "text"
         /\ result = story_result(content, chars_per_line, lines_per_page,
                                  NoCap, DefaultPrefix, now, "execute")

\* a call with another image type has returned two pages
C20_Witness ==
    /\ caller = "execute" /\ image_type # "BlackBgWhiteText"
    /\ Succeeded /\ result.count = 2

\* step one of the reference: the display lines of a content, a blank line
\* for every blank source line and the chunks of every other source line
ReferenceLines(c, n) == DisplayLinesOf(SourceLines(c), n, HasText)
\* step two of the reference: consecutive groups of n lines, the last shorter
Groups(d, n) ==
    [k \in 1..Ceil(Len(d), n) |->
        SubSeq(d, (k - 1) * n + 1, IF k * n < Len(d) THEN k * n ELSE Len(d))]
IsPrefixOf(a, b) == Len(a) <= Len(b) /\ a = SubSeq(b, 1, Len(a))
\* the pages of the loop, the one being filled included
PagesSoFar == pages \o (IF current_page # <<>> THEN <<current_page>> ELSE <<>>)

(* ----------------------------------------------------------------------- *)
(* C22: for chars_per_line >= 1 and lines_per_page >= 1 the incremental    *)
(* loop of split_text_into_pages agrees with a two-step reference: the     *)
(* content flattened into D display lines (one blank line per blank source *)
(* line, ceil(L/N) chunks per other source line), then cut into            *)
(* consecutive groups of lines_per_page. The result has ceil(D /           *)
(* lines_per_page) pages, page k holds display lines (k-1)*lines_per_page  *)
(* + 1 through min(k*lines_per_page, D), and at every point of the loop    *)
(* the pages built so far are the groups of the lines emitted so far.      *)
(* ----------------------------------------------------------------------- *)
C22_TwoStep ==
    PositiveCapacity =>
      LET d == ReferenceLines(content, chars_per_line)
      IN /\ pc = "loop" =>
              /\ IsPrefixOf(Flatten(PagesSoFar), d)
              /\ PagesSoFar = Groups(Flatten(PagesSoFar), lines_per_page)
         /\ Paginated =>
              /\ uncapped = Groups(d, lines_per_page)
              /\ Len(uncapped) = Ceil(Len(d), lines_per_page)
              /\ \A k \in 1..Len(uncapped) :
                   \A j \in 1..Len(uncapped[k]) :
                     /\ (k - 1) * lines_per_page + j <= Len(d)
                     /\ uncapped[k][j] = d[(k - 1) * lines_per_page + j]

\* blank lines and chunks of a long line, cut into a full page and a shorter one
C22_Witness ==
    /\ pc = "cap" /\ PositiveCapacity
    /\ lines_per_page >= 2 /\ Len(uncapped) = 2
    /\ Len(uncapped[2]) < lines_per_page
    /\ \E k \in 1..Len(original_lines) : WhitespaceOnly(original_lines[k])
    /\ \E k \in 1..Len(original_lines) :
         HasText(original_lines[k]) /\ Len(original_lines[k]) > chars_per_line

\* a page has been drawn
PageDrawn == pc \in {"render", "done"} /\ Len(footers) >= 1

(* ----------------------------------------------------------------------- *)
(* C23: for every canvas height and every page, body line k is drawn at    *)
(* y = 150 + (k-1)*35, and the slot of the last body line of a full page,  *)
(* which ends at 150 + lines_per_page*35, ends at or above the y position  *)
(* of the footer, height - 50: body text does not overlap the footer.      *)
(* Stated for lines_per_page >= 1.                                         *)
(* ----------------------------------------------------------------------- *)
C23_BodyAboveFooter ==
    (PageDrawn /\ lines_per_page >= 1)
      => /\ \A k \in 1..Len(drawn.lines) :
              drawn.lines[k][2] = 150 + (k - 1) * 35
         /\ drawn.footer_at[2] = height - 50
         /\ Len(drawn.lines) = lines_per_page
              => 150 + lines_per_page * 35 <= drawn.footer_at[2]

\* the positions of the quotes of a string, in increasing order
RECURSIVE QuotesFrom(_, _)
QuotesFrom(str, k) ==
    IF k > Len(str) THEN <<>>
    ELSE (IF str[k] = "'" THEN <<k>> ELSE <<>>) \o QuotesFrom(str, k + 1)
\* the items written between quotes in a string, in the order of the string
ListItems(str) ==
    LET q == QuotesFrom(str, 1)
    IN [k \in 1..(Len(q) \div 2) |-> SubSeq(str, q[2 * k - 1] + 1, q[2 * k] - 1)]

(* ----------------------------------------------------------------------- *)
(* C21: execute never raises and returns one result whose type is "text"   *)
(* or "error". On success the page count of the text equals the number of  *)
(* returned paths and the number of pages rendered, and result is the      *)
(* string form of the paths in page-index order; on a failure the type is  *)
(* "error", the text carries the message and there is nothing else.        *)
(* ----------------------------------------------------------------------- *)
C21_ResultShape ==
    (caller = "execute" /\ pc = "done")
      => /\ result.type \in {"text", "error"}
         /\ result.type = "text"
              => /\ DOMAIN result = {"type", "count", "paths", "result"}
                 /\ result.count = Len(image_paths)
                 /\ result.count = Len(pages) /\ result.count = Len(footers)
                 /\ result.result[1] = "[" /\ result.result[Len(result.result)] = "]"
                 /\ ListItems(result.result) = image_paths
                 /\ \A k \in 1..Len(image_paths) :
                      NumberOf(PathIndex(ListItems(result.result)[k])) = k
         /\ result.type = "error"
              => /\ DOMAIN result = {"type", "text"}
                 /\ result.text \in {"ValueError", "makedirs", "save"}

\* execute has returned two pages on a file system that can fail
C21_Witness ==
    /\ caller = "execute" /\ io_faulty /\ pc = "done"
    /\ result.type = "text" /\ result.count = 2

\* the registry of the server
Registered == {"calculator", "weather", "imageprocessing", "websearch", "time"}
MissingRequired == Required(tool_name) \ arguments # {}
\* execute is called only behind both checks, and only once
CallsBehindChecks ==
    invocations' # invocations
      => /\ invocations = 0 /\ invocations' = 1
         /\ tool_name \in Registered /\ ~MissingRequired

(* ----------------------------------------------------------------------- *)
(* C24: in call_tool validation precedes execution. A call naming a tool   *)
(* that is not in the registry ends with status 404 and no execution; a    *)
(* call missing a required parameter ends with status 400 and no           *)
(* execution; only a call passing both checks executes the tool, exactly   *)
(* once, and an exception of the tool that is not an HTTPException is      *)
(* reported as status 500.                                                 *)
(* ----------------------------------------------------------------------- *)
C24_ValidationFirst ==
    /\ [](invocations <= 1)
    /\ [](srv_pc = "done" =>
            /\ tool_name \notin Registered
                 => response.status = 404 /\ invocations = 0
            /\ (tool_name \in Registered /\ MissingRequired)
                 => response.status = 400 /\ invocations = 0
            /\ (tool_name \in Registered /\ ~MissingRequired)
                 => /\ invocations = 1
                    /\ response.status = IF exception = "none" THEN 200 ELSE 500)
    /\ [][CallsBehindChecks]_vars

\* a call that passed both checks was executed and its exception reported
C24_Witness ==
    /\ srv_pc = "done" /\ invocations = 1
    /\ exception = "TypeError" /\ response.status = 500

====
